---- MODULE Spec2Model ----
(***************************************************************************)
(* Model of the dependency checker (dependency_core.py, dependency_cli.py). *)
(*                                                                         *)
(* Python strings that the code takes apart (slicing, lower(), regular     *)
(* expressions, re.split, sorted) are sequences of one-character strings,  *)
(* so that each of these conversions is computed, not assumed.  File names *)
(* of the bundled catalogs, message kinds and program positions are atomic *)
(* strings.                                                                *)
(***************************************************************************)
EXTENDS Integers, Sequences, FiniteSets, TLC

VARIABLES
    \* --- load_standard_library_modules ---
    python_version,         \* the version string passed in
    resource,               \* load outcome of each bundled catalog file
    filename,               \* the catalog file selected by the version
    standard_lib_modules,   \* the returned set
    cat_warned,             \* the "Warning: Failed to load standard library" print
    cat_pc,                 \* "start" | "done" | "raised"
    \* --- load_package_map and the lookups on its result ---
    override,               \* the --package-map argument and what the path holds
    package_map,            \* the returned dict
    map_warned,             \* the "Warning: Failed to load package map" print
    map_pc,                 \* "start" | "loaded" | "resolved"
    lookup_name,            \* the identifier last resolved
    lookup_result,          \* package_name_map.get(name.lower(), name)
    \* --- extract_imports_from_file ---
    file_lines,             \* the lines of the file being read
    ext_i,                  \* number of lines read so far
    imported_modules,       \* the set being built
    ext_pc,                 \* "reading" | "done"
    \* --- scan_dependencies_logic ---
    tree,                   \* the project folder as os.walk yields it
    recursive,              \* the recursive argument
    installed,              \* the distributions `pip show` finds
    scan_pc,                \* "start" | "walk" | "req" | "py" | "done" | "raised"
    fi,                     \* files of the walk visited so far
    li,                     \* lines of the current requirements.txt read so far
    pending,                \* imported_modules not yet iterated over
    missing_dependencies,   \* the dict, as its items in insertion order
    scan_summary_messages,  \* the trace
    found_dependencies_to_check,
    checked,                \* history: the calls of check_package_installed
    missing_log,            \* history: each occurrence found missing, in order
    scan_run,               \* 1 during the first call, 2 during a repeated call
    first_missing,          \* history: the missing map the first call returned
    \* --- generate_requirements_logic ---
    gen_pc,                 \* "start" | "walk" | "py" | "open" | "write" | "done" | "raised"
    gen_fi,                 \* files of the walk visited so far
    gen_pending,            \* imported_modules not yet iterated over
    dependencies,           \* the set of specifier lines
    messages,               \* the messages returned
    out_file,               \* what the output path holds
    out_before,             \* history: what it held when the call began
    to_write,               \* sorted(dependencies) not yet written
    gen_success,            \* the flag returned, once gen_pc is "done"
    \* --- main (dependency_cli.py) ---
    command,                \* args.command
    create_venv,            \* args.create_venv
    interactive,            \* args.interactive
    path_kind,              \* what args.path is now: "dir" | "file" | "absent"
    path_at_invoke,         \* history: what it was when main began
    venv_exists,            \* args.path/.venv exists
    python_exe,             \* "args" (args.python) | "venv"
    cli_pc,                 \* "start" | "check" | "run" | "done"
    called,                 \* the logic function main called, "none" if none
    answers,                \* what input() returns, in order
    prompted_deps,          \* history: the missing map passed to prompt_for_installation
    packages_to_install,    \* the result of prompt_for_installation
    exit_status             \* the sys.exit code, -1 until the exit

catVars == <<python_version, resource, filename, standard_lib_modules, cat_warned, cat_pc>>
mapVars == <<override, package_map, map_warned, map_pc, lookup_name, lookup_result>>
extVars == <<file_lines, ext_i, imported_modules, ext_pc>>
scanVars == <<tree, recursive, installed, scan_pc, fi, li, pending,
              missing_dependencies, scan_summary_messages,
              found_dependencies_to_check, checked, missing_log,
              scan_run, first_missing>>
genVars == <<gen_pc, gen_fi, gen_pending, dependencies, messages, out_file,
             out_before, to_write, gen_success>>
cliVars == <<command, create_venv, interactive, path_kind, path_at_invoke, venv_exists,
             python_exe, cli_pc, called, answers, prompted_deps, packages_to_install,
             exit_status>>

vars == <<catVars, mapVars, extVars, scanVars, genVars, cliVars>>

----------------------------------------------------------------------------
(* Strings                                                                 *)

UpperChars == <<"A","B","C","D","E","F","G","H","I","J","K","L","M",
                "N","O","P","Q","R","S","T","U","V","W","X","Y","Z">>
LowerChars == <<"a","b","c","d","e","f","g","h","i","j","k","l","m",
                "n","o","p","q","r","s","t","u","v","w","x","y","z">>
DigitChars == <<"0","1","2","3","4","5","6","7","8","9">>

Range(s) == {s[i] : i \in DOMAIN s}

\* str.lower() on one character
LowerChar(c) ==
    IF \E i \in DOMAIN UpperChars : UpperChars[i] = c
    THEN LowerChars[CHOOSE i \in DOMAIN UpperChars : UpperChars[i] = c]
    ELSE c

\* str.lower()
Lower(s) == [i \in DOMAIN s |-> LowerChar(s[i])]

\* s[:n]
Prefix(s, n) == SubSeq(s, 1, IF Len(s) < n THEN Len(s) ELSE n)

\* s.startswith(p)
StartsWith(s, p) == Len(s) >= Len(p) /\ SubSeq(s, 1, Len(p)) = p

\* the first two dot-separated components of s, joined by a dot
MajorMinor(s) ==
    LET dots == {i \in DOMAIN s : s[i] = "."}
        after == {i \in dots : \E j \in dots : j < i}
    IN IF after = {} THEN s
       ELSE SubSeq(s, 1, (CHOOSE i \in after : \A j \in after : i <= j) - 1)

----------------------------------------------------------------------------
(* String literals of the code and of the sample inputs                    *)

kw_import == <<"i","m","p","o","r","t">>
kw_from   == <<"f","r","o","m">>
kw_as     == <<"a","s">>
n_os       == <<"o","s">>
n_sys      == <<"s","y","s">>
n_json     == <<"j","s","o","n">>
n_Json     == <<"J","s","o","n">>
n_zoneinfo == <<"z","o","n","e","i","n","f","o">>
n_tomllib  == <<"t","o","m","l","l","i","b">>
n_foo == <<"f","o","o">>
n_a   == <<"a">>
n_b   == <<"b">>
n_c   == <<"c">>
n_bs4      == <<"b","s","4">>
n_PIL      == <<"P","I","L">>
n_cv2      == <<"c","v","2">>
n_sklearn  == <<"s","k","l","e","a","r","n">>
n_osgeo    == <<"o","s","g","e","o">>
n_magic    == <<"m","a","g","i","c">>
n_lxml     == <<"l","x","m","l">>
n_pycrypto == <<"p","y","c","r","y","p","t","o">>
n_Crypto   == <<"C","r","y","p","t","o">>
n_torch    == <<"t","o","r","c","h">>
n_mpl      == <<"m","p","l">>
n_pd       == <<"p","d">>
n_np       == <<"n","p">>
n_tf       == <<"t","f">>
n_django   == <<"d","j","a","n","g","o">>
n_flask    == <<"f","l","a","s","k">>
n_Pil      == <<"P","i","l">>
n_pil      == <<"p","i","l">>
n_BS4      == <<"B","S","4">>
n_crypto   == <<"c","r","y","p","t","o">>
n_Flask    == <<"F","l","a","s","k">>
n_requests == <<"r","e","q","u","e","s","t","s">>
n_custom   == <<"c","u","s","t","o","m","_","m","o","d","u","l","e">>
n_Custom   == <<"C","u","s","t","o","m","_","M","o","d","u","l","e">>
dot   == <<".">>
d_beautifulsoup4 == <<"b","e","a","u","t","i","f","u","l","s","o","u","p","4">>
d_Pillow         == <<"P","i","l","l","o","w">>
d_opencv         == <<"o","p","e","n","c","v","-","p","y","t","h","o","n">>
d_scikit         == <<"s","c","i","k","i","t","-","l","e","a","r","n">>
d_gdal           == <<"g","d","a","l">>
d_pymagic        == <<"p","y","t","h","o","n","-","m","a","g","i","c">>
d_pycryptodome   == <<"p","y","c","r","y","p","t","o","d","o","m","e">>
d_pytorch        == <<"p","y","t","o","r","c","h">>
d_matplotlib     == <<"m","a","t","p","l","o","t","l","i","b">>
d_pandas         == <<"p","a","n","d","a","s">>
d_numpy          == <<"n","u","m","p","y">>
d_tensorflow     == <<"t","e","n","s","o","r","f","l","o","w">>
d_Django         == <<"D","j","a","n","g","o">>
d_Flask          == <<"F","l","a","s","k">>
d_custom   == <<"c","u","s","t","o","m","-","p","a","c","k","a","g","e">>
d_custombs4 == <<"c","u","s","t","o","m","-","b","s","4">>
d_simd     == <<"P","i","l","l","o","w","-","S","I","M","D">>
sp    == <<" ">>

----------------------------------------------------------------------------
(* load_standard_library_modules                                           *)

CatalogFiles == {"stdlib_3_8.json", "stdlib_3_9.json", "stdlib_3_10.json",
                 "stdlib_3_11.json", "stdlib_3_12.json"}

version_map ==
    (<<"3",".","8">>     :> "stdlib_3_8.json")  @@
    (<<"3",".","9">>     :> "stdlib_3_9.json")  @@
    (<<"3",".","1","0">> :> "stdlib_3_10.json") @@
    (<<"3",".","1","1">> :> "stdlib_3_11.json") @@
    (<<"3",".","1","2">> :> "stdlib_3_12.json")

DefaultCatalogFile == "stdlib_3_12.json"

\* python_version[:3]
SliceDigits == 3

\* SelectCatalogFile with the oldest catalog as the default
SelectCatalogFileOldest(v) ==
    IF Prefix(v, SliceDigits) \in DOMAIN version_map
    THEN version_map[Prefix(v, SliceDigits)]
    ELSE "stdlib_3_8.json"

\* version_map.get(python_version[:3], "stdlib_3_12.json")
SelectCatalogFile(v) ==
    IF Prefix(v, SliceDigits) \in DOMAIN version_map
    THEN version_map[Prefix(v, SliceDigits)]
    ELSE DefaultCatalogFile

\* The bundled data files dependency_checker_pkg/data/stdlib_3_X.json (a JSON
\* array of module names each).  The test suite fixes what is known of them:
\* "zoneinfo" is in the 3.8 and 3.11 catalogs, "tomllib" is in the 3.11 and
\* 3.12 catalogs and not in the 3.8 one.
CatalogData(f) ==
    IF f \in {"stdlib_3_11.json", "stdlib_3_12.json"}
    THEN {n_os, n_sys, n_json, n_zoneinfo, n_tomllib}
    ELSE {n_os, n_sys, n_json, n_zoneinfo}

\* What opening and parsing a bundled file gives: a JSON array of names, no
\* such resource, text that is not JSON, or JSON that is not an array
ResourceOutcomes == {"ok", "missing", "malformed", "not_array"}

\* with resources.open_text(...) as f: modules = json.load(f); isinstance check;
\* {m.lower() for m in modules}
LoadOk(f) == resource[f] = "ok"
LoadedSet(f) == {Lower(m) : m \in CatalogData(f)}

\* The except branch loads stdlib_3_12.json again without the isinstance
\* check: a JSON object is iterated over its keys (one key here), a number,
\* true or null cannot be iterated and the comprehension raises TypeError
ObjectKeys == {n_json}

\* the body of load_standard_library_modules on version v
LoadCatalog(v) ==
    /\ filename' = SelectCatalogFile(v)
    /\ IF LoadOk(filename')
       THEN /\ standard_lib_modules' = LoadedSet(filename')
            /\ cat_warned' = FALSE
            /\ cat_pc' = "done"
       ELSE /\ cat_warned' = TRUE
            /\ IF LoadOk(DefaultCatalogFile)
               THEN /\ standard_lib_modules' = LoadedSet(DefaultCatalogFile)
                    /\ cat_pc' = "done"
               ELSE IF resource[DefaultCatalogFile] = "not_array"
               THEN \/ /\ standard_lib_modules' = {Lower(m) : m \in ObjectKeys}
                       /\ cat_pc' = "done"
                    \/ /\ standard_lib_modules' = {}
                       /\ cat_pc' = "raised"
               ELSE /\ standard_lib_modules' = {}
                    /\ cat_pc' = "raised"
    /\ UNCHANGED <<python_version, resource>>

load_standard_library_modules ==
    /\ cat_pc = "start"
    /\ LoadCatalog(python_version)
    /\ UNCHANGED <<mapVars, extVars, scanVars, genVars, cliVars>>

\* Version strings: major "." minor, optionally "." patch
Majors  == {<<"3">>, <<"2">>}
Minors  == {<<"7">>, <<"8">>, <<"9">>, <<"1","0">>, <<"1","1">>, <<"1","2">>, <<"1","3">>}
Patches == {<<>>, <<".","0">>, <<".","2">>, <<".","1","0">>}
VersionStrings == {ma \o <<".">> \o mi \o p : ma \in Majors, mi \in Minors, p \in Patches}

CatalogIdle ==
    /\ python_version = <<>>
    /\ resource = [f \in CatalogFiles |-> "ok"]
    /\ filename = ""
    /\ standard_lib_modules = {}
    /\ cat_warned = FALSE
    /\ cat_pc = "idle"

----------------------------------------------------------------------------
(* extract_imports_from_file                                               *)

IsSpace(c) == c \in {" ", "\t"}
IsWordChar(c) == c \in Range(UpperChars) \cup Range(LowerChars) \cup Range(DigitChars) \cup {"_"}

\* the index after the longest run of spaces (of word characters) of s from i
RECURSIVE SkipSpaces(_, _)
SkipSpaces(s, i) == IF i <= Len(s) /\ IsSpace(s[i]) THEN SkipSpaces(s, i + 1) ELSE i
RECURSIVE SkipWord(_, _)
SkipWord(s, i) == IF i <= Len(s) /\ IsWordChar(s[i]) THEN SkipWord(s, i + 1) ELSE i

\* the literal w stands in s at index i
At(s, i, w) == i + Len(w) - 1 <= Len(s) /\ SubSeq(s, i, i + Len(w) - 1) = w

\* str.strip()
RECURSIVE RStrip(_)
RStrip(s) == IF s # <<>> /\ IsSpace(s[Len(s)]) THEN RStrip(SubSeq(s, 1, Len(s) - 1)) ELSE s
Strip(s) == LET t == RStrip(s) IN SubSeq(t, SkipSpaces(t, 1), Len(t))

\* MatchImport with the pattern cut after the captured name: no alias clause
\* and no end-of-line anchor
MatchImportUnanchored(line) ==
    LET p0 == SkipSpaces(line, 1)
        p1 == p0 + Len(kw_import)
        p2 == SkipSpaces(line, p1)
        p3 == SkipWord(line, p2)
    IN IF At(line, p0, kw_import) /\ p2 > p1 /\ p3 > p2
       THEN <<SubSeq(line, p2, p3 - 1)>> ELSE <<>>

\* re.match(r'^\s*import\s+([a-zA-Z0-9_]+)(\s+as\s+[a-zA-Z0-9_]+)?\s*$', line):
\* <<group(1)>> on a match, <<>> on none.  Every repetition is followed by a
\* character outside its class, so the greedy match is the only one.
MatchImport(line) ==
    LET p0 == SkipSpaces(line, 1)
        p1 == p0 + Len(kw_import)
        p2 == SkipSpaces(line, p1)
        p3 == SkipWord(line, p2)
        q  == SkipSpaces(line, p3)
        r  == SkipSpaces(line, q + Len(kw_as))
        w  == SkipWord(line, r)
        alias == /\ q > p3 /\ At(line, q, kw_as) /\ r > q + Len(kw_as) /\ w > r
                 /\ SkipSpaces(line, w) = Len(line) + 1
    IN IF At(line, p0, kw_import) /\ p2 > p1 /\ p3 > p2 /\ (q = Len(line) + 1 \/ alias)
       THEN <<SubSeq(line, p2, p3 - 1)>> ELSE <<>>

\* re.match(r'^\s*from\s+([a-zA-Z0-9_]+)\s+import\b', line)
MatchFromImport(line) ==
    LET p0 == SkipSpaces(line, 1)
        p1 == p0 + Len(kw_from)
        p2 == SkipSpaces(line, p1)
        p3 == SkipWord(line, p2)
        p4 == SkipSpaces(line, p3)
        p5 == p4 + Len(kw_import)
    IN IF /\ At(line, p0, kw_from) /\ p2 > p1 /\ p3 > p2 /\ p4 > p3
          /\ At(line, p4, kw_import)
          /\ (p5 > Len(line) \/ ~IsWordChar(line[p5]))
       THEN <<SubSeq(line, p2, p3 - 1)>> ELSE <<>>

\* the body of `for line in f`: what one line adds to imported_modules
LineImports(raw) ==
    LET line == Strip(raw)
    IN IF line = <<>> \/ StartsWith(line, <<"#">>) THEN {}
       ELSE IF MatchImport(line) # <<>> THEN {MatchImport(line)[1]}
       ELSE IF MatchFromImport(line) # <<>> THEN {MatchFromImport(line)[1]}
       ELSE {}

\* extract_imports_from_file on a readable file with these lines
RECURSIVE ExtractImports(_)
ExtractImports(lines) ==
    IF lines = <<>> THEN {}
    ELSE ExtractImports(SubSeq(lines, 1, Len(lines) - 1)) \cup LineImports(lines[Len(lines)])

read_line ==
    /\ ext_pc = "reading"
    /\ ext_i < Len(file_lines)
    /\ ext_i' = ext_i + 1
    /\ imported_modules' = imported_modules \cup LineImports(file_lines[ext_i + 1])
    /\ UNCHANGED <<file_lines, ext_pc>>
    /\ UNCHANGED <<catVars, mapVars, scanVars, genVars, cliVars>>

return_imports ==
    /\ ext_pc = "reading"
    /\ ext_i = Len(file_lines)
    /\ ext_pc' = "done"
    /\ UNCHANGED <<file_lines, ext_i, imported_modules>>
    /\ UNCHANGED <<catVars, mapVars, scanVars, genVars, cliVars>>

ImportLine(x)      == kw_import \o sp \o x
ImportAsLine(x, y) == kw_import \o sp \o x \o sp \o kw_as \o sp \o y
FromLine(x, y)     == kw_from \o sp \o x \o sp \o kw_import \o sp \o y

SampleLines ==
    { ImportLine(n_os), ImportLine(n_os \o dot \o n_a), ImportAsLine(n_foo, n_b),
      FromLine(n_a, n_c), FromLine(n_a \o dot \o n_b, n_c), FromLine(dot \o n_a, n_c),
      <<" ", " ">> \o ImportLine(n_bs4) \o <<" ">>,
      <<"#">> \o sp \o ImportLine(n_foo), <<>>,
      ImportLine(n_os) \o <<",">> \o sp \o n_sys }

MaxLines == 2

RECURSIVE SeqsUpTo(_, _)
SeqsUpTo(S, n) ==
    IF n = 0 THEN {<<>>}
    ELSE LET shorter == SeqsUpTo(S, n - 1)
         IN shorter \cup {Append(t, x) : t \in {u \in shorter : Len(u) = n - 1}, x \in S}

ExtractIdle ==
    /\ file_lines = <<>>
    /\ ext_i = 0
    /\ imported_modules = {}
    /\ ext_pc = "idle"

----------------------------------------------------------------------------
(* PACKAGE_NAME_MAP, load_package_map and the lookup                       *)

PACKAGE_NAME_MAP ==
    (n_bs4 :> d_beautifulsoup4) @@ (n_PIL :> d_Pillow) @@ (n_cv2 :> d_opencv) @@
    (n_sklearn :> d_scikit) @@ (n_osgeo :> d_gdal) @@ (n_magic :> d_pymagic) @@
    (n_lxml :> n_lxml) @@ (n_pycrypto :> d_pycryptodome) @@
    (n_Crypto :> d_pycryptodome) @@ (n_torch :> d_pytorch) @@
    (n_mpl :> d_matplotlib) @@ (n_pd :> d_pandas) @@ (n_np :> d_numpy) @@
    (n_tf :> d_tensorflow) @@ (n_django :> d_Django) @@ (n_flask :> d_Flask)

\* dict.get(key, default)
Get(m, key, default) == IF key \in DOMAIN m THEN m[key] ELSE default

\* {k.lower(): v for k, v in custom_map.items()}: the items in file order, a
\* later item replacing an earlier one with the same lowercase key
RECURSIVE LoweredItems(_)
LoweredItems(items) ==
    IF items = <<>> THEN <<>>
    ELSE LET k == Lower(items[Len(items)][1])
             v == items[Len(items)][2]
         IN (k :> v) @@ LoweredItems(SubSeq(items, 1, Len(items) - 1))

\* Update that keeps the entry of a key already present
UpdateKeepExisting(m, d) == m @@ d

\* package_map.update(d)
Update(m, d) == d @@ m

\* if file_path and os.path.isfile(file_path)
OverridePresent(o) == o.kind \in {"unreadable", "invalid_json", "not_object", "valid"}

load_package_map ==
    /\ map_pc = "start"
    /\ IF OverridePresent(override)
       THEN IF override.kind = "valid"
            THEN /\ package_map' = Update(PACKAGE_NAME_MAP, LoweredItems(override.items))
                 /\ map_warned' = FALSE
            ELSE /\ package_map' = PACKAGE_NAME_MAP
                 /\ map_warned' = TRUE
       ELSE /\ package_map' = PACKAGE_NAME_MAP
            /\ map_warned' = FALSE
    /\ map_pc' = "loaded"
    /\ UNCHANGED <<override, lookup_name, lookup_result>>
    /\ UNCHANGED <<catVars, extVars, scanVars, genVars, cliVars>>

\* package_name_map.get(name.lower(), name)
Resolve(m, name) == Get(m, Lower(name), name)

LookupNames == {n_bs4, n_BS4, n_PIL, n_Pil, n_pil, n_Crypto, n_crypto,
                n_flask, n_Flask, n_requests, n_custom, n_Custom}

resolve_name ==
    /\ map_pc \in {"loaded", "resolved"}
    /\ \E name \in LookupNames :
        /\ lookup_name' = name
        /\ lookup_result' = Resolve(package_map, name)
    /\ map_pc' = "resolved"
    /\ UNCHANGED <<override, package_map, map_warned>>
    /\ UNCHANGED <<catVars, extVars, scanVars, genVars, cliVars>>

OverrideItems == {<<>>, <<<<n_custom, d_custom>>>>, <<<<n_Custom, d_custom>>>>,
                  <<<<n_bs4, d_custombs4>>>>, <<<<n_BS4, d_custombs4>>>>,
                  <<<<n_PIL, d_simd>>>>,
                  <<<<n_bs4, d_beautifulsoup4>>, <<n_BS4, d_custombs4>>>>}

Overrides ==
    {[kind |-> k, items |-> <<>>] :
        k \in {"none", "nonexistent", "unreadable", "invalid_json", "not_object"}}
    \cup {[kind |-> "valid", items |-> it] : it \in OverrideItems}

MapIdle ==
    /\ override = [kind |-> "none", items |-> <<>>]
    /\ package_map = PACKAGE_NAME_MAP
    /\ map_warned = FALSE
    /\ map_pc = "idle"
    /\ lookup_name = <<>>
    /\ lookup_result = <<>>

----------------------------------------------------------------------------
(* The package inventory: _run_pip_command, check_package_installed,       *)
(* get_package_version                                                     *)

\* _run_pip_command(python_exe, ['show', name]) returns 0 with a "Name:" line
\* exactly for an installed distribution; pip compares names case-insensitively
PipShow(inv, name) == Lower(name) \in inv

\* check_package_installed with a negative answer remembered across calls: a
\* name already returned as missing is not asked about again
check_package_installed_once(inv, package_name, package_name_map) ==
    \/ PipShow(inv, package_name)
    \/ \E i \in DOMAIN first_missing : first_missing[i][1] = package_name

check_package_installed(inv, package_name, package_name_map) ==
    \/ PipShow(inv, package_name)
    \/ /\ Lower(package_name) \in DOMAIN package_name_map
       /\ package_name_map[Lower(package_name)] # <<>>
       /\ PipShow(inv, package_name_map[Lower(package_name)])

----------------------------------------------------------------------------
(* scan_dependencies_logic                                                 *)

f_requirements == <<"r","e","q","u","i","r","e","m","e","n","t","s",".","t","x","t">>
f_init         == <<"_","_","i","n","i","t","_","_",".","p","y">>
ext_py         == <<".","p","y">>

\* os.path.getsize(py_file_path) < 50
SmallInitSize == 50

\* s.endswith(p)
EndsWith(s, p) == Len(s) >= Len(p) /\ SubSeq(s, Len(s) - Len(p) + 1, Len(s)) = p

\* a dict as the sequence of its items <<key, value>> in insertion order
DictKeys(d) == {d[i][1] : i \in DOMAIN d}
DictGet(d, k) == d[CHOOSE i \in DOMAIN d : d[i][1] = k][2]
\* d[k] = v: a present key keeps its place
DictSet(d, k, v) ==
    IF k \in DictKeys(d)
    THEN [i \in DOMAIN d |-> IF d[i][1] = k THEN <<k, v>> ELSE d[i]]
    ELSE Append(d, <<k, v>>)
\* DictSetDefault with the `not in` guard dropped
DictSetUnguarded(d, k, v) == DictSet(d, k, v)
\* if k not in d: d[k] = v
DictSetDefault(d, k, v) == IF k \in DictKeys(d) THEN d ELSE Append(d, <<k, v>>)

\* for root, _, files in walk_generator: for file in files -- the files in the
\* order visited, each with the index of its directory; the first directory
\* only when not recursive
RECURSIVE WalkFrom(_, _)
WalkFrom(t, d) ==
    IF d > Len(t) THEN <<>>
    ELSE [i \in DOMAIN t[d].files |-> [dir |-> d, file |-> t[d].files[i]]] \o WalkFrom(t, d + 1)

Walk(t, rec) == IF rec \/ t = <<>> THEN WalkFrom(t, 1) ELSE WalkFrom(<<t[1]>>, 1)

\* os.path.relpath(path, folder_path)
RelPath(t, e) == <<t[e.dir].path, e.file.name>>

\* the four os.path.exists tests: module or module.py at the scan root or next
\* to the scanned file
IsLocalModule(t, d, module) ==
    \/ module \o ext_py \in t[1].entries
    \/ module \in t[1].entries
    \/ module \o ext_py \in t[d].entries
    \/ module \in t[d].entries

\* Classify with the two tests in the other order
ClassifyLocalFirst(t, d, module, std) ==
    IF IsLocalModule(t, d, module) THEN "local"
    ELSE IF Lower(module) \in std THEN "standard"
    ELSE "external"

\* the tests on one imported module, in the order the loop body makes them:
\* module.lower() in standard_lib_modules, then is_local_module
Classify(t, d, module, std) ==
    IF Lower(module) \in std THEN "standard"
    ELSE IF IsLocalModule(t, d, module) THEN "local"
    ELSE "external"

\* re.split(r'[<>=~]', line)[0].strip()
RECURSIVE UpToOperator(_, _)
UpToOperator(s, i) ==
    IF i <= Len(s) /\ s[i] \notin {"<", ">", "=", "~"} THEN UpToOperator(s, i + 1) ELSE i
RequirementName(line) == Strip(SubSeq(line, 1, UpToOperator(line, 1) - 1))

Msg(t, name) == [t |-> t, name |-> name]

scan_start ==
    /\ scan_pc = "start"
    /\ LoadCatalog(python_version)
    /\ IF cat_pc' = "raised"
       THEN /\ scan_pc' = "raised"
            /\ UNCHANGED scan_summary_messages
       ELSE IF ~recursive /\ tree = <<>>
       THEN /\ scan_pc' = "done"
            /\ scan_summary_messages' = <<Msg("scanning", <<>>), Msg("empty_folder", <<>>)>>
       ELSE /\ scan_pc' = "walk"
            /\ scan_summary_messages' = <<Msg("scanning", <<>>)>>
    /\ missing_dependencies' = <<>>
    /\ found_dependencies_to_check' = FALSE
    /\ fi' = 0 /\ li' = 0 /\ pending' = {}
    /\ UNCHANGED <<tree, recursive, installed, checked, missing_log,
                   scan_run, first_missing>>
    /\ UNCHANGED <<mapVars, extVars, genVars, cliVars>>

\* one iteration of `for file in files`, up to the loop over its lines or imports
scan_file ==
    /\ scan_pc = "walk"
    /\ fi < Len(Walk(tree, recursive))
    /\ LET e == Walk(tree, recursive)[fi + 1]
           file == e.file
       IN /\ fi' = fi + 1
          /\ IF file.name = f_requirements
             THEN /\ found_dependencies_to_check' = TRUE
                  /\ scan_summary_messages' =
                        Append(scan_summary_messages, Msg("req_header", RelPath(tree, e)))
                  /\ li' = 0
                  /\ pending' = {}
                  /\ scan_pc' = IF file.lines = <<>> THEN "walk" ELSE "req"
             ELSE IF EndsWith(file.name, ext_py)
                     /\ ~(file.name = f_init /\ file.size < SmallInitSize)
             THEN /\ found_dependencies_to_check' = TRUE
                  /\ scan_summary_messages' =
                        Append(scan_summary_messages, Msg("py_header", RelPath(tree, e)))
                  /\ pending' = ExtractImports(file.lines)
                  /\ li' = 0
                  /\ scan_pc' = IF pending' = {} THEN "walk" ELSE "py"
             ELSE UNCHANGED <<found_dependencies_to_check, scan_summary_messages,
                              li, pending, scan_pc>>
    /\ UNCHANGED <<tree, recursive, installed, missing_dependencies, checked, missing_log,
                   scan_run, first_missing>>
    /\ UNCHANGED <<catVars, mapVars, extVars, genVars, cliVars>>

\* one iteration of `for line in f` of a requirements.txt
scan_req_line ==
    /\ scan_pc = "req"
    /\ LET e == Walk(tree, recursive)[fi]
           raw == e.file.lines[li + 1]
           line == Strip(raw)
           package_name == RequirementName(line)
           display_name == Resolve(package_map, package_name)
           prov == [kind |-> "requirements.txt", path |-> RelPath(tree, e)]
           examined == line # <<>> /\ line[1] # "#" /\ package_name # <<>>
           isin == check_package_installed(installed, package_name, package_map)
       IN /\ li' = li + 1
          /\ scan_pc' = IF li + 1 = Len(e.file.lines) THEN "walk" ELSE "req"
          /\ IF examined
             THEN /\ checked' = checked \cup
                        {[name |-> package_name, kind |-> "requirements.txt", at |-> fi]}
                  /\ IF ~isin
                     THEN /\ missing_dependencies' =
                                DictSet(missing_dependencies, package_name, prov)
                          /\ missing_log' = Append(missing_log, <<package_name, prov>>)
                          /\ scan_summary_messages' = scan_summary_messages \o
                                <<Msg("checking", package_name), Msg("missing", display_name)>>
                     ELSE /\ scan_summary_messages' = scan_summary_messages \o
                                <<Msg("checking", package_name), Msg("installed", display_name)>>
                          /\ UNCHANGED <<missing_dependencies, missing_log>>
             ELSE UNCHANGED <<checked, missing_dependencies, missing_log,
                              scan_summary_messages>>
    /\ UNCHANGED <<tree, recursive, installed, fi, pending, found_dependencies_to_check,
                   scan_run, first_missing>>
    /\ UNCHANGED <<catVars, mapVars, extVars, genVars, cliVars>>

\* one iteration of `for module in imported_modules` (a set: any order)
scan_import ==
    /\ scan_pc = "py"
    /\ \E module \in pending :
        LET e == Walk(tree, recursive)[fi]
            display_module_name == Resolve(package_map, module)
            prov == [kind |-> "import", path |-> RelPath(tree, e)]
            isin == check_package_installed(installed, module, package_map)
        IN /\ pending' = pending \ {module}
           /\ scan_pc' = IF pending' = {} THEN "walk" ELSE "py"
           /\ IF Classify(tree, e.dir, module, standard_lib_modules) = "standard"
              THEN /\ scan_summary_messages' =
                        Append(scan_summary_messages, Msg("skip_standard", module))
                   /\ UNCHANGED <<checked, missing_dependencies, missing_log>>
              ELSE IF Classify(tree, e.dir, module, standard_lib_modules) = "local"
              THEN /\ scan_summary_messages' =
                        Append(scan_summary_messages, Msg("skip_local", module))
                   /\ UNCHANGED <<checked, missing_dependencies, missing_log>>
              ELSE /\ checked' = checked \cup
                        {[name |-> module, kind |-> "import", at |-> fi]}
                   /\ IF ~isin
                      THEN /\ missing_log' = Append(missing_log, <<module, prov>>)
                           /\ missing_dependencies' =
                                DictSetDefault(missing_dependencies, module, prov)
                           /\ scan_summary_messages' = scan_summary_messages \o
                                (IF module \notin DictKeys(missing_dependencies)
                                 THEN <<Msg("checking_import", display_module_name),
                                        Msg("missing", display_module_name)>>
                                 ELSE <<Msg("checking_import", display_module_name)>>)
                      ELSE /\ scan_summary_messages' = scan_summary_messages \o
                                <<Msg("checking_import", display_module_name),
                                  Msg("installed", display_module_name)>>
                           /\ UNCHANGED <<missing_dependencies, missing_log>>
    /\ UNCHANGED <<tree, recursive, installed, fi, li, found_dependencies_to_check,
                   scan_run, first_missing>>
    /\ UNCHANGED <<catVars, mapVars, extVars, genVars, cliVars>>

\* after the walk: the summary and the return
scan_finish ==
    /\ scan_pc = "walk"
    /\ fi = Len(Walk(tree, recursive))
    /\ scan_pc' = "done"
    /\ scan_summary_messages' = scan_summary_messages \o
        (IF ~found_dependencies_to_check /\ missing_dependencies = <<>>
         THEN <<Msg("nothing_found", <<>>)>>
         ELSE IF missing_dependencies # <<>>
         THEN <<Msg("scan_complete", <<>>), Msg("summary_missing", <<>>)>> \o
              [i \in DOMAIN missing_dependencies |->
                  Msg("summary_item", Resolve(package_map, missing_dependencies[i][1]))]
         ELSE <<Msg("scan_complete", <<>>), Msg("all_installed", <<>>)>>)
    /\ UNCHANGED <<tree, recursive, installed, fi, li, pending, missing_dependencies,
                   found_dependencies_to_check, checked, missing_log,
                   scan_run, first_missing>>
    /\ UNCHANGED <<catVars, mapVars, extVars, genVars, cliVars>>

\* the caller takes the returned map and calls scan_dependencies_logic again
\* with the same arguments
scan_again ==
    /\ scan_pc = "done"
    /\ scan_run = 1
    /\ first_missing' = missing_dependencies
    /\ scan_run' = 2
    /\ scan_pc' = "start"
    /\ checked' = {}
    /\ missing_log' = <<>>
    /\ UNCHANGED <<tree, recursive, installed, fi, li, pending, missing_dependencies,
                   scan_summary_messages, found_dependencies_to_check>>
    /\ UNCHANGED <<catVars, mapVars, extVars, genVars, cliVars>>

ScanIdle ==
    /\ tree = <<>>
    /\ recursive = FALSE
    /\ installed = {}
    /\ scan_pc = "idle"
    /\ fi = 0 /\ li = 0 /\ pending = {}
    /\ missing_dependencies = <<>>
    /\ scan_summary_messages = <<>>
    /\ found_dependencies_to_check = FALSE
    /\ checked = {}
    /\ missing_log = <<>>
    /\ scan_run = 1
    /\ first_missing = <<>>

----------------------------------------------------------------------------
(* generate_requirements_logic                                             *)

\* get_package_version: the "Version:" line of `pip show` of the mapped name,
\* <<version>>, or <<>> for None.  Every installed distribution of the sample
\* inventories has version 1.0.
v_1_0 == <<"1",".","0">>
get_package_version(inv, package_name, package_name_map) ==
    IF PipShow(inv, Resolve(package_name_map, package_name)) THEN <<v_1_0>> ELSE <<>>

\* f"{pypi_name}=={version}" if version else pypi_name
Specifier(pypi_name, version) ==
    IF version # <<>> THEN pypi_name \o <<"=","=">> \o version[1] ELSE pypi_name

\* sorted(): strings compared by code point
AsciiOrder == <<"-", ".">> \o DigitChars \o <<"=">> \o UpperChars \o <<"_">> \o LowerChars
Ord(c) == CHOOSE i \in DOMAIN AsciiOrder : AsciiOrder[i] = c
RECURSIVE StrLess(_, _)
StrLess(a, b) ==
    IF a = <<>> THEN b # <<>>
    ELSE IF b = <<>> THEN FALSE
    ELSE IF a[1] = b[1] THEN StrLess(Tail(a), Tail(b))
    ELSE Ord(a[1]) < Ord(b[1])
\* Sorted with the comparison the wrong way round
RECURSIVE SortedDescending(_)
SortedDescending(S) ==
    IF S = {} THEN <<>>
    ELSE LET greatest == CHOOSE x \in S : \A y \in S \ {x} : StrLess(y, x)
         IN <<greatest>> \o SortedDescending(S \ {greatest})

RECURSIVE Sorted(_)
Sorted(S) ==
    IF S = {} THEN <<>>
    ELSE LET least == CHOOSE x \in S : \A y \in S \ {x} : StrLess(x, y)
         IN <<least>> \o Sorted(S \ {least})

\* "# Generated by dependency manager"
h_generated == <<"#"," ","G","e","n","e","r","a","t","e","d"," ","b","y"," ",
                 "d","e","p","e","n","d","e","n","c","y"," ","m","a","n","a","g","e","r">>

\* the file a successful call leaves
Manifest(deps) == <<h_generated>> \o Sorted(deps)

gen_start ==
    /\ gen_pc = "start"
    /\ LoadCatalog(python_version)
    /\ IF cat_pc' = "raised"
       THEN /\ gen_pc' = "raised"
            /\ UNCHANGED <<messages, gen_success>>
       ELSE IF ~recursive /\ tree = <<>>
       THEN /\ gen_pc' = "done"
            /\ gen_success' = FALSE
            /\ messages' = <<Msg("generating", <<>>), Msg("empty_folder", <<>>)>>
       ELSE /\ gen_pc' = "walk"
            /\ messages' = <<Msg("generating", <<>>)>>
            /\ UNCHANGED gen_success
    /\ dependencies' = {}
    /\ gen_fi' = 0 /\ gen_pending' = {}
    /\ out_before' = out_file
    /\ UNCHANGED <<out_file, to_write>>
    /\ UNCHANGED <<mapVars, extVars, scanVars, cliVars>>

\* one iteration of `for file in files`, up to the loop over its imports
gen_file ==
    /\ gen_pc = "walk"
    /\ gen_fi < Len(Walk(tree, recursive))
    /\ LET e == Walk(tree, recursive)[gen_fi + 1]
           file == e.file
       IN /\ gen_fi' = gen_fi + 1
          /\ IF EndsWith(file.name, ext_py)
                /\ (file.name # f_init \/ file.size >= SmallInitSize)
             THEN /\ messages' = Append(messages, Msg("py_header", RelPath(tree, e)))
                  /\ gen_pending' = ExtractImports(file.lines)
                  /\ gen_pc' = IF gen_pending' = {} THEN "walk" ELSE "py"
             ELSE UNCHANGED <<messages, gen_pending, gen_pc>>
    /\ UNCHANGED <<dependencies, out_file, out_before, to_write, gen_success>>
    /\ UNCHANGED <<catVars, mapVars, extVars, scanVars, cliVars>>

\* one iteration of `for module in imported_modules` (a set: any order)
gen_import ==
    /\ gen_pc = "py"
    /\ \E module \in gen_pending :
        LET e == Walk(tree, recursive)[gen_fi]
            version == get_package_version(installed, module, package_map)
            pypi_name == Resolve(package_map, module)
        IN /\ gen_pending' = gen_pending \ {module}
           /\ gen_pc' = IF gen_pending' = {} THEN "walk" ELSE "py"
           /\ IF Classify(tree, e.dir, module, standard_lib_modules) = "standard"
              THEN /\ messages' = Append(messages, Msg("skip_standard", module))
                   /\ UNCHANGED dependencies
              ELSE IF Classify(tree, e.dir, module, standard_lib_modules) = "local"
              THEN /\ messages' = Append(messages, Msg("skip_local", module))
                   /\ UNCHANGED dependencies
              ELSE IF check_package_installed(installed, module, package_map)
              THEN /\ dependencies' = dependencies \cup {Specifier(pypi_name, version)}
                   /\ messages' = Append(messages, Msg("found", pypi_name))
              ELSE /\ messages' = Append(messages, Msg("not_installed", pypi_name))
                   /\ UNCHANGED dependencies
    /\ UNCHANGED <<gen_fi, out_file, out_before, to_write, gen_success>>
    /\ UNCHANGED <<catVars, mapVars, extVars, scanVars, cliVars>>

\* NoDependencies as a test for None, which a set never is
NoDependenciesIsNone(deps) == FALSE

\* not dependencies
NoDependencies(deps) == deps = {}

\* after the walk: return False on an empty set, else go on to write
gen_collected ==
    /\ gen_pc = "walk"
    /\ gen_fi = Len(Walk(tree, recursive))
    /\ IF NoDependencies(dependencies)
       THEN /\ messages' = Append(messages, Msg("no_dependencies", <<>>))
            /\ gen_success' = FALSE
            /\ gen_pc' = "done"
       ELSE /\ gen_pc' = "open"
            /\ UNCHANGED <<messages, gen_success>>
    /\ UNCHANGED <<gen_fi, gen_pending, dependencies, out_file, out_before, to_write>>
    /\ UNCHANGED <<catVars, mapVars, extVars, scanVars, cliVars>>

\* open(output_path, 'w'): truncates the file, or raises and leaves it alone
gen_open ==
    /\ gen_pc = "open"
    /\ \/ /\ out_file' = [exists |-> TRUE, lines |-> <<>>]
          /\ to_write' = Manifest(dependencies)
          /\ gen_pc' = "write"
          /\ UNCHANGED <<messages, gen_success>>
       \/ /\ messages' = Append(messages, Msg("error_writing", <<>>))
          /\ gen_success' = FALSE
          /\ gen_pc' = "done"
          /\ UNCHANGED <<out_file, to_write>>
    /\ UNCHANGED <<gen_fi, gen_pending, dependencies, out_before>>
    /\ UNCHANGED <<catVars, mapVars, extVars, scanVars, cliVars>>

\* one f.write: the header first, then each of sorted(dependencies)
gen_write ==
    /\ gen_pc = "write"
    /\ to_write # <<>>
    /\ out_file' = [exists |-> TRUE, lines |-> Append(out_file.lines, Head(to_write))]
    /\ to_write' = Tail(to_write)
    /\ UNCHANGED <<gen_pc, gen_fi, gen_pending, dependencies, messages, out_before, gen_success>>
    /\ UNCHANGED <<catVars, mapVars, extVars, scanVars, cliVars>>

\* the with block ends: the file is closed and True returned
gen_close ==
    /\ gen_pc = "write"
    /\ to_write = <<>>
    /\ messages' = Append(messages, Msg("generated", <<>>))
    /\ gen_success' = TRUE
    /\ gen_pc' = "done"
    /\ UNCHANGED <<gen_fi, gen_pending, dependencies, out_file, out_before, to_write>>
    /\ UNCHANGED <<catVars, mapVars, extVars, scanVars, cliVars>>

\* an f.write, or the flush on close, raises: the with block closes the file
\* with what had reached it, and the except branch returns False
gen_write_fails ==
    /\ gen_pc = "write"
    /\ \E k \in 0..Len(out_file.lines) :
        out_file' = [exists |-> TRUE, lines |-> SubSeq(out_file.lines, 1, k)]
    /\ messages' = Append(messages, Msg("error_writing", <<>>))
    /\ gen_success' = FALSE
    /\ gen_pc' = "done"
    /\ UNCHANGED <<gen_fi, gen_pending, dependencies, out_before, to_write>>
    /\ UNCHANGED <<catVars, mapVars, extVars, scanVars, cliVars>>

\* the caller, after a scan of the folder, generates its requirements
then_generate ==
    /\ scan_pc = "done"
    /\ gen_pc = "idle"
    /\ gen_pc' = "start"
    /\ UNCHANGED <<gen_fi, gen_pending, dependencies, messages, out_file, out_before,
                   to_write, gen_success>>
    /\ UNCHANGED <<catVars, mapVars, extVars, scanVars, cliVars>>

\* after a successful generation with the default output file the caller
\* scans the same folder: the walk now lists the requirements.txt just written,
\* before or after the files that were there
then_scan ==
    /\ gen_pc = "done" /\ gen_success
    /\ scan_pc = "idle"
    /\ tree # <<>>
    /\ \E first \in BOOLEAN :
        LET written == [name |-> f_requirements, lines |-> out_file.lines, size |-> 0]
            files == IF first THEN <<written>> \o tree[1].files
                     ELSE Append(tree[1].files, written)
        IN tree' = [tree EXCEPT ![1] = [path |-> tree[1].path, files |-> files,
                                        entries |-> tree[1].entries \cup {f_requirements}]]
    /\ scan_pc' = "start"
    /\ UNCHANGED <<recursive, installed, fi, li, pending, missing_dependencies,
                   scan_summary_messages, found_dependencies_to_check, checked,
                   missing_log, scan_run, first_missing>>
    /\ UNCHANGED <<catVars, mapVars, extVars, genVars, cliVars>>

GenIdle ==
    /\ gen_pc = "idle"
    /\ gen_fi = 0 /\ gen_pending = {}
    /\ dependencies = {}
    /\ messages = <<>>
    /\ out_file = [exists |-> FALSE, lines |-> <<>>]
    /\ out_before = [exists |-> FALSE, lines |-> <<>>]
    /\ to_write = <<>>
    /\ gen_success = FALSE

----------------------------------------------------------------------------
(* dependency_cli.py: prompt_for_installation and main                     *)

a_all        == <<"a","l","l">>
a_individual == <<"i","n","d","i","v","i","d","u","a","l">>
a_none       == <<"n","o","n","e">>
a_y          == <<"y">>
a_n          == <<"n">>

\* the keys of a dict in insertion order
KeyList(d) == [i \in DOMAIN d |-> d[i][1]]

\* Selected with the first response taken for every key
SelectedByFirstResponse(keys, responses) ==
    IF Lower(Strip(Head(responses))) = a_y THEN keys ELSE <<>>

\* SelectSeq on the keys by the y/n answers given in order
RECURSIVE Selected(_, _)
Selected(keys, responses) ==
    IF keys = <<>> THEN <<>>
    ELSE (IF Lower(Strip(Head(responses))) = a_y THEN <<Head(keys)>> ELSE <<>>)
         \o Selected(Tail(keys), Tail(responses))

\* prompt_for_installation(missing_deps, package_name_map), reading `ans`
prompt_for_installation(missing_deps, ans) ==
    LET choice == Lower(Strip(Head(ans)))
    IN IF choice = a_all THEN KeyList(missing_deps)
       ELSE IF choice = a_individual THEN Selected(KeyList(missing_deps), Tail(ans))
       ELSE <<>>

PathCommands == {"scan", "install", "generate-requirements"}
Commands == PathCommands \cup {"list", "upgrade", "install-pkg", "check", "tree"}

\* lines 155-171: after load_package_map and get_python_info, which change
\* nothing main looks at later, the virtual environment is created if asked for.  venv.create makes args.path/.venv and
\* every missing directory above it before it installs pip; it raises when
\* args.path is a file or cannot be written to.
cli_setup ==
    /\ cli_pc = "start"
    /\ cli_pc' = "check"
    /\ IF command \in {"install", "generate-requirements"} /\ create_venv
       THEN IF venv_exists
            THEN /\ python_exe' = "venv"
                 /\ UNCHANGED <<path_kind, venv_exists>>
            ELSE \/ /\ path_kind # "file"          \* created, pip upgraded
                    /\ path_kind' = "dir" /\ venv_exists' = TRUE
                    /\ python_exe' = "venv"
                 \/ /\ path_kind # "file"          \* directories made, then an exception
                    /\ path_kind' = "dir" /\ venv_exists' = TRUE
                    /\ python_exe' = "args"
                 \/ /\ UNCHANGED <<path_kind, venv_exists>>   \* nothing could be made
                    /\ python_exe' = "args"
       ELSE UNCHANGED <<path_kind, venv_exists, python_exe>>
    /\ UNCHANGED <<command, create_venv, interactive, path_at_invoke, called, answers,
                   prompted_deps, packages_to_install, exit_status>>
    /\ UNCHANGED <<catVars, mapVars, extVars, scanVars, genVars>>

\* lines 173-175: os.path.isdir(args.path)
cli_check_path ==
    /\ cli_pc = "check"
    /\ IF command \in PathCommands /\ path_kind # "dir"
       THEN /\ exit_status' = 1
            /\ cli_pc' = "done"
       ELSE /\ cli_pc' = "run"
            /\ UNCHANGED exit_status
    /\ UNCHANGED <<command, create_venv, interactive, path_kind, path_at_invoke,
                   venv_exists, python_exe, called, answers, prompted_deps,
                   packages_to_install>>
    /\ UNCHANGED <<catVars, mapVars, extVars, scanVars, genVars>>

\* the missing map a scan may return to main
p_req == [kind |-> "requirements.txt", path |-> <<".", f_requirements>>]
p_imp == [kind |-> "import", path |-> <<".", <<"m",".","p","y">>>>]
ScanResults == {<<>>, <<<<n_requests, p_req>>>>, <<<<n_requests, p_req>>, <<n_bs4, p_imp>>>>}

\* lines 177-186: scan
cli_scan ==
    /\ cli_pc = "run" /\ command = "scan"
    /\ called' = "scan_dependencies_logic"
    /\ \E missing_deps \in ScanResults :
        exit_status' = IF missing_deps = <<>> THEN 0 ELSE 1
    /\ cli_pc' = "done"
    /\ UNCHANGED <<command, create_venv, interactive, path_kind, path_at_invoke,
                   venv_exists, python_exe, answers, prompted_deps, packages_to_install>>
    /\ UNCHANGED <<catVars, mapVars, extVars, scanVars, genVars>>

\* lines 188-209: install
cli_install ==
    /\ cli_pc = "run" /\ command = "install"
    /\ called' = "scan_dependencies_logic"
    /\ \E missing_deps \in ScanResults, failed \in BOOLEAN :
        IF missing_deps = <<>>
        THEN exit_status' = 0 /\ UNCHANGED <<prompted_deps, packages_to_install>>
        ELSE IF interactive
        THEN /\ prompted_deps' = missing_deps
             /\ packages_to_install' = prompt_for_installation(missing_deps, answers)
             /\ exit_status' = IF packages_to_install' = <<>> THEN 0
                               ELSE IF failed THEN 1 ELSE 0
        ELSE /\ exit_status' = IF failed THEN 1 ELSE 0
             /\ UNCHANGED <<prompted_deps, packages_to_install>>
    /\ cli_pc' = "done"
    /\ UNCHANGED <<command, create_venv, interactive, path_kind, path_at_invoke,
                   venv_exists, python_exe, answers>>
    /\ UNCHANGED <<catVars, mapVars, extVars, scanVars, genVars>>

\* lines 242-247: generate-requirements
cli_generate ==
    /\ cli_pc = "run" /\ command = "generate-requirements"
    /\ called' = "generate_requirements_logic"
    /\ \E success \in BOOLEAN : exit_status' = IF success THEN 0 ELSE 1
    /\ cli_pc' = "done"
    /\ UNCHANGED <<command, create_venv, interactive, path_kind, path_at_invoke,
                   venv_exists, python_exe, answers, prompted_deps, packages_to_install>>
    /\ UNCHANGED <<catVars, mapVars, extVars, scanVars, genVars>>

\* lines 211-240, 249-253: the commands that take no project path
cli_other ==
    /\ cli_pc = "run" /\ command \notin PathCommands
    /\ called' = "other"
    /\ \E success \in BOOLEAN :
        exit_status' = IF command = "list" \/ success THEN 0 ELSE 1
    /\ cli_pc' = "done"
    /\ UNCHANGED <<command, create_venv, interactive, path_kind, path_at_invoke,
                   venv_exists, python_exe, answers, prompted_deps, packages_to_install>>
    /\ UNCHANGED <<catVars, mapVars, extVars, scanVars, genVars>>

AnswerLists ==
    { <<first>> \o rest :
        first \in {a_all, a_individual, a_none},
        rest \in {<<a_y, a_n>>, <<<<"Y"," ">>, a_y>>, <<a_n, a_n>>} }

CliIdle ==
    /\ command = "scan"
    /\ create_venv = FALSE
    /\ interactive = FALSE
    /\ path_kind = "dir"
    /\ path_at_invoke = "dir"
    /\ venv_exists = FALSE
    /\ python_exe = "args"
    /\ cli_pc = "idle"
    /\ called = "none"
    /\ answers = <<>>
    /\ prompted_deps = <<>>
    /\ packages_to_install = <<>>
    /\ exit_status = -1

\* Sample projects: a root folder holding m.py, optionally a requirements.txt
\* (before or after m.py in the listing) and a sub-folder a, which holds a small
\* __init__.py, n.py and optionally foo.py and a requirements.txt of its own
\* (the lines 'foo' and 'bs4 ~=4.0')
File(name, lines, size) == [name |-> name, lines |-> lines, size |-> size]
Dir(path, files, subdirs) ==
    [path |-> path, files |-> files,
     entries |-> {files[i].name : i \in DOMAIN files} \cup subdirs]

f_m == <<"m",".","p","y">>
f_n == <<"n",".","p","y">>

ReqLines == {n_foo, n_os \o <<">","=","1",".","0">>, <<"#"," ">> \o n_foo}
SubReqLines == <<n_foo, n_bs4 \o <<" ","~","=","4",".","0">>>>
MaxReqLines == 2

RootPyContents == { <<ImportLine(n_foo)>>,
                    <<ImportLine(n_foo), ImportLine(n_os)>>,
                    <<ImportLine(n_bs4), FromLine(n_foo, n_c)>>,
                    <<ImportLine(n_a)>> }
SubPyContents  == { <<ImportLine(n_foo)>>, <<ImportAsLine(n_bs4, n_b), ImportLine(n_foo)>>,
                    <<ImportLine(n_Json)>> }

MkTree(rootReq, reqFirst, mLines, subReq, subFoo, nLines) ==
    LET m == File(f_m, mLines, 100)
        req == File(f_requirements, rootReq.lines, 0)
        rootFiles == IF ~rootReq.present THEN <<m>>
                     ELSE IF reqFirst THEN <<req, m>> ELSE <<m, req>>
        subFiles == <<File(f_init, <<>>, 0), File(f_n, nLines, 100)>>
                    \o (IF subFoo THEN <<File(n_foo \o ext_py, <<>>, 0)>> ELSE <<>>)
                    \o (IF subReq THEN <<File(f_requirements, SubReqLines, 0)>> ELSE <<>>)
    IN <<Dir(".", rootFiles, {n_a}), Dir("a", subFiles, {})>>

NoReq == [present |-> FALSE, lines |-> <<>>]

Trees ==
    {<<>>} \cup
    { MkTree(rr, rf, ml, sr, sf, nl) :
        rr \in {NoReq} \cup {[present |-> TRUE, lines |-> l] : l \in SeqsUpTo(ReqLines, MaxReqLines)},
        rf \in BOOLEAN, ml \in RootPyContents, sr \in BOOLEAN, sf \in BOOLEAN,
        nl \in SubPyContents }

\* generation reads no requirements.txt: the trees without one
GenTrees ==
    {<<>>} \cup
    { MkTree(NoReq, FALSE, ml, FALSE, sf, nl) :
        ml \in RootPyContents, sf \in BOOLEAN, nl \in SubPyContents }

Inventories == { {}, {n_foo}, {n_bs4}, {n_foo, d_beautifulsoup4} }

ScanVersion == <<"3",".","1","2",".","0">>

InitScan ==
    /\ MapIdle /\ ExtractIdle /\ GenIdle /\ CliIdle
    /\ python_version = ScanVersion
    /\ resource = [f \in CatalogFiles |-> "ok"]
    /\ filename = ""
    /\ standard_lib_modules = {}
    /\ cat_warned = FALSE
    /\ cat_pc = "idle"
    /\ tree \in Trees
    /\ recursive \in BOOLEAN
    /\ installed \in Inventories
    /\ scan_pc = "start"
    /\ fi = 0 /\ li = 0 /\ pending = {}
    /\ missing_dependencies = <<>>
    /\ scan_summary_messages = <<>>
    /\ found_dependencies_to_check = FALSE
    /\ checked = {}
    /\ missing_log = <<>>
    /\ scan_run = 1
    /\ first_missing = <<>>

NextScan == scan_start \/ scan_file \/ scan_req_line \/ scan_import \/ scan_finish

SpecScan == InitScan /\ [][NextScan]_vars

\* Two calls in a row: the sample projects with at most one requirements.txt
\* line at the root
RescanTrees ==
    {<<>>} \cup
    { MkTree(rr, rf, ml, sr, FALSE, nl) :
        rr \in {NoReq, [present |-> TRUE, lines |-> <<n_foo>>]},
        rf \in BOOLEAN, ml \in RootPyContents, sr \in BOOLEAN, nl \in SubPyContents }

InitRescan ==
    /\ MapIdle /\ ExtractIdle /\ GenIdle /\ CliIdle
    /\ python_version = ScanVersion
    /\ resource = [f \in CatalogFiles |-> "ok"]
    /\ filename = ""
    /\ standard_lib_modules = {}
    /\ cat_warned = FALSE
    /\ cat_pc = "idle"
    /\ tree \in RescanTrees
    /\ recursive \in BOOLEAN
    /\ installed \in Inventories
    /\ scan_pc = "start"
    /\ fi = 0 /\ li = 0 /\ pending = {}
    /\ missing_dependencies = <<>>
    /\ scan_summary_messages = <<>>
    /\ found_dependencies_to_check = FALSE
    /\ checked = {}
    /\ missing_log = <<>>
    /\ scan_run = 1
    /\ first_missing = <<>>

\* A scan and then a generation on projects in which a module of the standard
\* library has a namesake: os.py at the root, Json.py in the sub-folder
ClassifyTrees ==
    { << Dir(".", <<File(f_m, ml, 100)>> \o rootExtra, {n_a}),
         Dir("a", <<File(f_init, <<>>, 0), File(f_n, nl, 100)>> \o subExtra, {}) >> :
        ml \in RootPyContents, nl \in SubPyContents,
        rootExtra \in {<<>>, <<File(n_os \o ext_py, <<>>, 0)>>},
        subExtra \in {<<>>, <<File(n_Json \o ext_py, <<>>, 0)>>} }

InitClassify ==
    /\ MapIdle /\ ExtractIdle /\ GenIdle /\ CliIdle
    /\ python_version = ScanVersion
    /\ resource = [f \in CatalogFiles |-> "ok"]
    /\ filename = ""
    /\ standard_lib_modules = {}
    /\ cat_warned = FALSE
    /\ cat_pc = "idle"
    /\ tree \in ClassifyTrees
    /\ recursive \in BOOLEAN
    /\ installed \in Inventories
    /\ scan_pc = "start"
    /\ fi = 0 /\ li = 0 /\ pending = {}
    /\ missing_dependencies = <<>>
    /\ scan_summary_messages = <<>>
    /\ found_dependencies_to_check = FALSE
    /\ checked = {}
    /\ missing_log = <<>>
    /\ scan_run = 1
    /\ first_missing = <<>>

NextClassify == scan_start \/ scan_file \/ scan_import \/ scan_finish \/ then_generate
                \/ gen_start \/ gen_file \/ gen_import \/ gen_collected \/ gen_open
                \/ gen_write \/ gen_close \/ gen_write_fails

SpecClassify == InitClassify /\ [][NextClassify]_vars

NextRescan == NextScan \/ scan_again

SpecRescan == InitRescan /\ [][NextRescan]_vars

OldFiles == { [exists |-> FALSE, lines |-> <<>>],
              [exists |-> TRUE, lines |-> <<n_requests>>] }

InitGen ==
    /\ MapIdle /\ ExtractIdle /\ CliIdle
    /\ python_version = ScanVersion
    /\ resource = [f \in CatalogFiles |-> "ok"]
    /\ filename = ""
    /\ standard_lib_modules = {}
    /\ cat_warned = FALSE
    /\ cat_pc = "idle"
    /\ tree \in GenTrees
    /\ recursive \in BOOLEAN
    /\ installed \in Inventories
    /\ scan_pc = "idle"
    /\ fi = 0 /\ li = 0 /\ pending = {}
    /\ missing_dependencies = <<>>
    /\ scan_summary_messages = <<>>
    /\ found_dependencies_to_check = FALSE
    /\ checked = {}
    /\ missing_log = <<>>
    /\ scan_run = 1
    /\ first_missing = <<>>
    /\ gen_pc = "start"
    /\ gen_fi = 0 /\ gen_pending = {}
    /\ dependencies = {}
    /\ messages = <<>>
    /\ out_file \in OldFiles
    /\ out_before = out_file
    /\ to_write = <<>>
    /\ gen_success = FALSE

NextGen == gen_start \/ gen_file \/ gen_import \/ gen_collected \/ gen_open
           \/ gen_write \/ gen_close \/ gen_write_fails

SpecGen == InitGen /\ [][NextGen]_vars

NextGenScan == NextGen \/ then_scan \/ NextScan

SpecGenScan == InitGen /\ [][NextGenScan]_vars

InitCli ==
    /\ CatalogIdle /\ MapIdle /\ ExtractIdle /\ ScanIdle /\ GenIdle
    /\ command \in Commands
    /\ create_venv \in BOOLEAN
    /\ interactive \in BOOLEAN
    /\ path_kind \in {"dir", "file", "absent"}
    /\ path_at_invoke = path_kind
    /\ venv_exists \in (IF path_kind = "dir" THEN BOOLEAN ELSE {FALSE})
    /\ python_exe = "args"
    /\ cli_pc = "start"
    /\ called = "none"
    /\ answers \in AnswerLists
    /\ prompted_deps = <<>>
    /\ packages_to_install = <<>>
    /\ exit_status = -1

NextCli == cli_setup \/ cli_check_path \/ cli_scan \/ cli_install \/ cli_generate \/ cli_other

SpecCli == InitCli /\ [][NextCli]_vars

InitCatalog ==
    /\ MapIdle /\ ExtractIdle /\ ScanIdle /\ GenIdle /\ CliIdle
    /\ python_version \in VersionStrings
    /\ resource \in [CatalogFiles -> ResourceOutcomes]
    /\ filename = ""
    /\ standard_lib_modules = {}
    /\ cat_warned = FALSE
    /\ cat_pc = "start"

NextCatalog == load_standard_library_modules

SpecCatalog == InitCatalog /\ [][NextCatalog]_vars

InitMap ==
    /\ CatalogIdle /\ ExtractIdle /\ ScanIdle /\ GenIdle /\ CliIdle
    /\ override \in Overrides
    /\ package_map = <<>>
    /\ map_warned = FALSE
    /\ map_pc = "start"
    /\ lookup_name = <<>>
    /\ lookup_result = <<>>

NextMap == load_package_map \/ resolve_name

SpecMap == InitMap /\ [][NextMap]_vars

\* the last item of the override file whose lowercased key is k, if any
OverrideFor(k) ==
    LET its == override.items
        hits == {i \in DOMAIN its : Lower(its[i][1]) = k}
    IN IF override.kind # "valid" \/ hits = {} THEN <<>>
       ELSE <<its[CHOOSE i \in hits : \A j \in hits : j <= i][2]>>

\* C2: the lookup is case-insensitive on the key: a name that is a case
\* variant of the import identifier of an entry (override, or built-in and
\* not overridden) resolves to that entry's distribution name.
C2_LookupCaseInsensitive ==
    map_pc = "resolved" =>
        /\ OverrideFor(Lower(lookup_name)) # <<>>
              => lookup_result = OverrideFor(Lower(lookup_name))[1]
        /\ \A k \in DOMAIN PACKAGE_NAME_MAP :
              (Lower(k) = Lower(lookup_name) /\ OverrideFor(Lower(lookup_name)) = <<>>)
              => lookup_result = PACKAGE_NAME_MAP[k]

\* C14: with a valid override file the returned table holds, under the
\* lowercased key of every override entry, the value the file gives for it (so
\* that a built-in key with that lowercase form resolves to the override's
\* value), holds every built-in entry whose key is not overridden unchanged,
\* and holds nothing else.
C14_OverrideOverlaysBuiltIn ==
    (map_pc # "start" /\ override.kind = "valid") =>
        /\ DOMAIN package_map = DOMAIN PACKAGE_NAME_MAP \cup
                {Lower(override.items[i][1]) : i \in DOMAIN override.items}
        /\ \A i \in DOMAIN override.items :
              package_map[Lower(override.items[i][1])] =
                  OverrideFor(Lower(override.items[i][1]))[1]
        /\ \A b \in DOMAIN PACKAGE_NAME_MAP :
              /\ OverrideFor(b) = <<>> => package_map[b] = PACKAGE_NAME_MAP[b]
              /\ OverrideFor(Lower(b)) # <<>>
                    => Resolve(package_map, b) = OverrideFor(Lower(b))[1]

\* C14 witness: the override bs4 -> custom-bs4 has been loaded over the
\* built-in bs4 -> beautifulsoup4 and bs4 has been resolved.
C14_Witness ==
    /\ map_pc = "resolved"
    /\ override = [kind |-> "valid", items |-> <<<<n_bs4, d_custombs4>>>>]
    /\ lookup_name = n_bs4
    /\ lookup_result = d_custombs4
    /\ package_map[n_cv2] = d_opencv

\* C7: an override path that cannot be read or parsed yields the warning and
\* the built-in map.
C7_BadOverrideWarnsAndFallsBack ==
    (map_pc # "start"
        /\ override.kind \in {"nonexistent", "unreadable", "invalid_json", "not_object"})
    => (map_warned /\ package_map = PACKAGE_NAME_MAP)

InitExtract ==
    /\ CatalogIdle /\ MapIdle /\ ScanIdle /\ GenIdle /\ CliIdle
    /\ file_lines \in SeqsUpTo(SampleLines, MaxLines)
    /\ ext_i = 0
    /\ imported_modules = {}
    /\ ext_pc = "reading"

NextExtract == read_line \/ return_imports

SpecExtract == InitExtract /\ [][NextExtract]_vars

\* the plain identifiers of the sample lines
PlainNames == {n_os, n_sys, n_foo, n_a, n_b, n_c, n_bs4}

\* the X of a line that is, trimmed, 'import X', 'import X as A' or
\* 'from X import Y' with plain identifiers; empty for every other line
FormHead(raw) ==
    {x \in PlainNames :
        Strip(raw) \in {ImportLine(x)}
                       \cup {ImportAsLine(x, a) : a \in PlainNames}
                       \cup {FromLine(x, y) : y \in PlainNames}}

\* C15: the set extract_imports_from_file returns holds the X of every line of
\* the form 'import X', 'import X as A' or 'from X import Y' and nothing else:
\* blank lines, comment lines, relative imports and every other line add nothing.
C15_ExactlyTheFormHeads ==
    ext_pc = "done" =>
        imported_modules = UNION {FormHead(file_lines[i]) : i \in DOMAIN file_lines}

\* C15 witness: a file with an aliased import and a from-import has been read.
C15_Witness ==
    /\ ext_pc = "done"
    /\ file_lines = <<ImportAsLine(n_foo, n_b), FromLine(n_a, n_c)>>
    /\ imported_modules = {n_foo, n_a}

\* C3: a dotted import contributes its head identifier: 'import x.y' adds x
\* and 'from x.y import z' adds x to the returned set.
C3_DottedImportYieldsHead ==
    ext_pc = "done" =>
        \A i \in DOMAIN file_lines : \A x \in {n_os, n_a}, y \in {n_a, n_b}, z \in {n_c} :
            /\ Strip(file_lines[i]) = ImportLine(x \o dot \o y) => x \in imported_modules
            /\ Strip(file_lines[i]) = FromLine(x \o dot \o y, z) => x \in imported_modules

----------------------------------------------------------------------------
(* Claims about scan_dependencies_logic                                    *)

\* the occurrences of identifier k found missing so far, as indices of missing_log
Occurrences(k) == {i \in DOMAIN missing_log : missing_log[i][1] = k}
ReqOccurrences(k) == {i \in Occurrences(k) : missing_log[i][2].kind = "requirements.txt"}
Last(S) == CHOOSE i \in S : \A j \in S : j <= i
First(S) == CHOOSE i \in S : \A j \in S : i <= j

\* C11: a second call of scan_dependencies_logic on the same tree, with the
\* same arguments and the same inventory, returns a missing map with the same
\* keys and the same provenance for each key as the first call returned.
C11_RescanSameMissingMap ==
    (scan_run = 2 /\ scan_pc = "done")
    => Range(missing_dependencies) = Range(first_missing)

\* C11 witness: both calls have returned, with a missing map of two entries
\* that were entered in opposite orders by the two calls.
C11_Witness ==
    /\ scan_run = 2 /\ scan_pc = "done"
    /\ Len(first_missing) = 2
    /\ missing_dependencies # first_missing

\* the source files of the walk that are read for imports, by index
ScannedPy(upto) ==
    {i \in 1..upto :
        LET file == Walk(tree, recursive)[i].file
        IN EndsWith(file.name, ext_py) /\ ~(file.name = f_init /\ file.size < SmallInitSize)}

\* the names of the bundled catalog of the scans
CatalogNames == {Lower(m) : m \in CatalogData(SelectCatalogFile(ScanVersion))}

\* every import of a catalog module in the source files read is logged as
\* skipped built-in/standard in trace, and no catalog module is logged as local
StdLibOnly(trace, upto) ==
    /\ \A i \in DOMAIN trace :
          trace[i].t = "skip_local" => Lower(trace[i].name) \notin CatalogNames
    /\ \A f \in ScannedPy(upto) :
          \A module \in ExtractImports(Walk(tree, recursive)[f].file.lines) :
              Lower(module) \in CatalogNames
              => \E i \in DOMAIN trace : trace[i] = Msg("skip_standard", module)

\* C16: an imported identifier whose lowercase form is in the catalog is
\* classified StdLib, in the scan and in the generation, also when a file or
\* directory of its name exists next to the scanned file or at the root.
C16_StdLibBeforeLocal ==
    /\ scan_pc = "done" => StdLibOnly(scan_summary_messages, fi)
    /\ gen_pc = "done" => StdLibOnly(messages, gen_fi)

\* C16 witness: a scan and a generation have both finished on a project with
\* os.py at the root, whose m.py imports os.
C16_Witness ==
    /\ scan_pc = "done" /\ gen_pc = "done"
    /\ n_os \o ext_py \in tree[1].entries
    /\ IsLocalModule(tree, 1, n_os)
    /\ \E i \in DOMAIN scan_summary_messages :
          scan_summary_messages[i] = Msg("skip_standard", n_os)
    /\ \E i \in DOMAIN messages : messages[i] = Msg("skip_standard", n_os)

\* the walk holds no requirements.txt
OnlySources ==
    \A i \in DOMAIN Walk(tree, recursive) :
        Walk(tree, recursive)[i].file.name # f_requirements

\* the source files read in which module is imported and is not local
ImportedAt(module) ==
    {f \in ScannedPy(Len(Walk(tree, recursive))) :
        /\ module \in ExtractImports(Walk(tree, recursive)[f].file.lines)
        /\ ~IsLocalModule(tree, Walk(tree, recursive)[f].dir, module)}

\* the identifiers of the source files read
AllImports ==
    UNION {ExtractImports(Walk(tree, recursive)[f].file.lines) :
              f \in ScannedPy(Len(Walk(tree, recursive)))}

\* C19: on a tree of source files only, the keys of the returned missing map
\* are exactly the imported identifiers that are not in the catalog, not local
\* where imported, and whose distribution name (the identifier resolved through
\* the package-name map) is not installed; the value of each is 'import in'
\* a file that imports it.
C19_MissingAreUninstalledDistributions ==
    (scan_pc = "done" /\ OnlySources) =>
        /\ DictKeys(missing_dependencies) =
              {module \in AllImports :
                  /\ Lower(module) \notin CatalogNames
                  /\ ImportedAt(module) # {}
                  /\ ~PipShow(installed, Resolve(package_map, module))}
        /\ \A k \in DictKeys(missing_dependencies) :
              /\ DictGet(missing_dependencies, k).kind = "import"
              /\ \E f \in ImportedAt(k) :
                    DictGet(missing_dependencies, k).path =
                        RelPath(tree, Walk(tree, recursive)[f])

\* the text of a requirements line before the first of < > = ~, trimmed
BeforeOperator(line) ==
    LET ops == {i \in DOMAIN line : line[i] \in {"<", ">", "=", "~"}}
        cut == IF ops = {} THEN Len(line) + 1
               ELSE CHOOSE i \in ops : \A j \in ops : i <= j
    IN Strip(SubSeq(line, 1, cut - 1))

\* the identifiers of the non-blank, non-comment lines of the requirements.txt
\* files of the walk
RequirementIdentifiers ==
    UNION { {BeforeOperator(Strip(file.lines[i])) :
                i \in {j \in DOMAIN file.lines :
                          Strip(file.lines[j]) # <<>> /\ Strip(file.lines[j])[1] # "#"}}
            : file \in {Walk(tree, recursive)[w].file :
                          w \in {v \in DOMAIN Walk(tree, recursive) :
                                    Walk(tree, recursive)[v].file.name = f_requirements}} }

\* C20: the identifier of a requirements.txt line is a key of the returned
\* missing map exactly when the inventory reports it not installed.
C20_RequirementMissingIffNotInstalled ==
    scan_pc = "done" =>
        \A name \in RequirementIdentifiers \ {<<>>} :
            name \in DictKeys(missing_dependencies) <=> ~PipShow(installed, name)

\* C4: no identifier logged 'Skipping local module' during a scan is a key of
\* the missing map that the scan returns.
C4_LocalNeverMissing ==
    scan_pc = "done" =>
        \A i \in DOMAIN scan_summary_messages :
            scan_summary_messages[i].t = "skip_local"
            => scan_summary_messages[i].name \notin DictKeys(missing_dependencies)

\* C5: no identifier whose lowercase form is in the loaded catalog is passed to
\* check_package_installed, from a source import or from a requirements.txt line.
C5_StdLibNeverQueried ==
    \A c \in checked : Lower(c.name) \notin standard_lib_modules

\* C6 as claimed: the provenance returned for an identifier is the one of its
\* last occurrence found missing, in walk order.
C6_LastOccurrenceWins ==
    scan_pc = "done" =>
        \A k \in DictKeys(missing_dependencies) :
            DictGet(missing_dependencies, k) = missing_log[Last(Occurrences(k))][2]

\* C6 as amended: the keys of the missing map are the identifiers found
\* missing; a requirements.txt occurrence overwrites the entry, so the last of
\* them wins if there is one; a source import never overwrites, so with no
\* requirements.txt occurrence the first import occurrence wins.
C6_ReqLastElseImportFirst ==
    /\ DictKeys(missing_dependencies) = {missing_log[i][1] : i \in DOMAIN missing_log}
    /\ \A k \in DictKeys(missing_dependencies) :
        DictGet(missing_dependencies, k) =
            IF ReqOccurrences(k) # {}
            THEN missing_log[Last(ReqOccurrences(k))][2]
            ELSE missing_log[First(Occurrences(k))][2]

\* C6 witness: a finished scan in which a later source import found an
\* identifier missing that has an entry from another place already.
C6_Witness ==
    /\ scan_pc = "done"
    /\ \E i, j \in DOMAIN missing_log :
        /\ i < j
        /\ missing_log[i][1] = missing_log[j][1]
        /\ missing_log[i][2] # missing_log[j][2]
        /\ missing_log[j][2].kind = "import"
        /\ missing_log[i][2].kind = "import"

\* C10: every 'Checking ...' message of the trace is directly followed by the
\* Installed or Missing verdict for that identifier.
C10_CheckingHasVerdict ==
    scan_pc \in {"walk", "done"} =>
        \A i \in DOMAIN scan_summary_messages :
            scan_summary_messages[i].t \in {"checking", "checking_import"}
            => /\ i < Len(scan_summary_messages)
               /\ scan_summary_messages[i + 1].t \in {"missing", "installed"}
               /\ scan_summary_messages[i + 1].name \in
                    {scan_summary_messages[i].name,
                     Resolve(package_map, scan_summary_messages[i].name)}

\* C17: while the set of dependencies collected is empty the output file is
\* neither opened nor changed, and generation does not return success.
C17_EmptySetWritesNothing ==
    dependencies = {} =>
        /\ gen_pc \notin {"open", "write"}
        /\ out_file = out_before
        /\ ~gen_success

\* C17 witness: generation has returned on a project whose imports are all
\* standard-library or local modules, with an older file at the output path.
C17_Witness ==
    /\ gen_pc = "done"
    /\ dependencies = {}
    /\ out_before.exists
    /\ \E i \in DOMAIN messages : messages[i].t = "skip_standard"
    /\ \E i \in DOMAIN messages : messages[i].t = "skip_local"
    /\ \A i \in DOMAIN messages : messages[i].t # "not_installed"
    /\ messages[Len(messages)].t = "no_dependencies"

\* a line of the form 'name' or 'name==version'
SpecifierForm(l) ==
    LET eq == {i \in DOMAIN l : l[i] = "="}
    IN /\ l # <<>>
       /\ l[1] \notin {"#", "="}
       /\ eq = {} \/ \E k \in 2..(Len(l) - 2) : eq = {k, k + 1}

\* C18: when generation returns success the output file is the generator
\* comment line followed by the collected specifiers, each of the form 'name'
\* or 'name==version', in strictly ascending order (so none twice).
C18_ManifestLayout ==
    (gen_pc = "done" /\ gen_success) =>
        LET ls == out_file.lines
        IN /\ out_file.exists
           /\ Len(ls) >= 2
           /\ ls[1] = h_generated
           /\ {ls[i] : i \in 2..Len(ls)} = dependencies
           /\ \A i \in 2..Len(ls) : SpecifierForm(ls[i])
           /\ \A i, j \in 2..Len(ls) : i < j => StrLess(ls[i], ls[j])

\* C18 witness: generation has returned success with two specifiers written
\* over an older file.
C18_Witness ==
    /\ gen_pc = "done" /\ gen_success
    /\ Len(out_file.lines) = 3
    /\ out_before.exists

\* the distribution names of the specifier lines of the file written
ManifestNames ==
    {BeforeOperator(out_file.lines[i]) : i \in 2..Len(out_file.lines)}

\* C22: every specifier line of a generated manifest names a distribution
\* that the inventory reports installed, and a scan of the folder right after
\* the generation reports no name of the manifest as missing.
C22_ManifestNamesInstalled ==
    /\ (gen_pc = "done" /\ gen_success)
          => \A name \in ManifestNames : PipShow(installed, name)
    /\ (gen_pc = "done" /\ gen_success /\ scan_pc = "done")
          => ManifestNames \cap DictKeys(missing_dependencies) = {}

\* C8: when generation returns failure, the output path holds no partial
\* state: it is as it was before the call, or it holds the complete manifest.
C8_NoPartialFileOnFailure ==
    (gen_pc = "done" /\ gen_success = FALSE)
    => \/ out_file = out_before
       \/ out_file = [exists |-> TRUE, lines |-> Manifest(dependencies)]

\* C21: the list prompt_for_installation returns holds keys of the missing
\* map, each at most once and in map order: every key when the first answer
\* (trimmed, lowercased) is 'all', exactly the keys whose answer is 'y' when
\* it is 'individual', and none for any other answer.
C21_PromptSelection ==
    (cli_pc = "done" /\ prompted_deps # <<>>) =>
        LET choice == Lower(Strip(answers[1]))
            keys == [i \in DOMAIN prompted_deps |-> prompted_deps[i][1]]
            yes == {i \in DOMAIN keys : Lower(Strip(answers[i + 1])) = a_y}
            got == packages_to_install
            Pos(k) == CHOOSE i \in DOMAIN keys : keys[i] = k
        IN /\ \A j \in DOMAIN got : \E i \in DOMAIN keys : got[j] = keys[i]
           /\ \A j, k \in DOMAIN got : j < k => Pos(got[j]) < Pos(got[k])
           /\ choice = a_all => got = keys
           /\ choice = a_individual => {got[j] : j \in DOMAIN got} = {keys[i] : i \in yes}
           /\ choice \notin {a_all, a_individual} => got = <<>>

\* C21 witness: with two missing packages the answers 'individual', 'y', 'n'
\* have selected the first one.
C21_Witness ==
    /\ cli_pc = "done"
    /\ Len(prompted_deps) = 2
    /\ answers = <<a_individual, a_y, a_n>>
    /\ packages_to_install = <<n_requests>>

\* C9: for scan, install and generate-requirements, a path that is not an
\* existing directory when the command is invoked means that no scan or
\* generation is started and that the exit status is 1.
C9_InvalidPathNeverScans ==
    (cli_pc = "done" /\ command \in PathCommands /\ path_at_invoke # "dir")
    => (called = "none" /\ exit_status = 1)

----------------------------------------------------------------------------
(* Claims about load_standard_library_modules                              *)

\* the catalog of the newest supported version
NewestCatalogFile == version_map[<<"3",".","1","2">>]

C13_NeverRaises ==
    cat_pc # "raised"

\* C1: for every version string whose major.minor is one of 3.8 .. 3.12 the
\* catalog that load_standard_library_modules selects and returns is the one
\* of exactly that major.minor.
C1_SelectsOwnCatalog ==
    (cat_pc = "done" /\ MajorMinor(python_version) \in DOMAIN version_map
        /\ resource[version_map[MajorMinor(python_version)]] = "ok")
    => /\ filename = version_map[MajorMinor(python_version)]
       /\ standard_lib_modules = LoadedSet(version_map[MajorMinor(python_version)])

====
